---- MODULE Spec2Model ----
(***************************************************************************)
(* Model of the pubspec-platform analysis pipeline: the compatibility      *)
(* classifier (checkCompatibility), the capability extractor, and the      *)
(* command handler that fans out one fetch per dependency, joins them and  *)
(* partitions the results into the report.                                 *)
(*                                                                         *)
(* Strings that the code case-folds or trims (platform, SDK and markup     *)
(* texts) are sequences of one-character strings; dependency names are     *)
(* only ever compared for equality and are plain strings.                  *)
(***************************************************************************)
EXTENDS Integers, Sequences, FiniteSets, TLC

VARIABLES
    cc,          \* one call of checkCompatibility: its arguments and its return value
    page,        \* one call of the two extractors: the markup and their return values
    pp,          \* one call of parsePubspec: its argument, the files on disk, its outcome
    pc,          \* position of the command handler
    workspace,   \* what the handler finds on disk: folder, pubspec.yaml, its content
    pubspecData, \* the value yaml.load returned
    config,      \* compatibilityConfig
    depNames,    \* extractDependencies(...).dependencies
    devDepNames, \* extractDependencies(...).devDependencies
    tasks,       \* packagePromises: one entry per element of allPackageNames
    report,      \* analysisResult handed to displayResultsInWebview
    shown,       \* number of calls of displayResultsInWebview
    errorMessage, \* number of calls of showErrorMessage
    order,       \* history: the order in which the tasks settled, kept when observed
    view         \* the webview panel: what displayResultsInWebview was given and rendered

vars == <<cc, page, pp, pc, workspace, pubspecData, config, depNames, devDepNames,
          tasks, report, shown, errorMessage, order, view>>

\* the variables of the single calls of the pure functions
pureVars == <<cc, page, pp>>

runVars == <<pc, workspace, pubspecData, config, depNames, devDepNames,
             tasks, report, shown, errorMessage, order, view>>

NULL == "null"

\* a variable of the handler that is not assigned yet
Undefined == [kind |-> "undefined"]

-----------------------------------------------------------------------------
(* Bounds of the model *)

MaxPlatforms == 2   \* longest package platform list
MaxSdks == 2        \* longest package SDK list
MaxTargets == 2     \* longest target list of a CompatibilityConfig
MaxKeys == 2        \* most keys in one section of the manifest
MaxBadges == 2      \* most tag badges in one page
MaxSubs == 1        \* most sub-tags in one tag badge
MaxRecords == 2     \* most records in one bucket of a displayed analysis

-----------------------------------------------------------------------------
(* Strings *)

UpperCase == <<"A","B","C","D","E","F","G","H","I","J","K","L","M",
               "N","O","P","Q","R","S","T","U","V","W","X","Y","Z">>
LowerCase == <<"a","b","c","d","e","f","g","h","i","j","k","l","m",
               "n","o","p","q","r","s","t","u","v","w","x","y","z">>

\* the lower-case letter of each upper-case letter
LowerOf ==
    [c \in {UpperCase[i] : i \in 1..Len(UpperCase)} |->
        LowerCase[CHOOSE i \in 1..Len(UpperCase) : UpperCase[i] = c]]

ToLowerChar(c) == IF c \in DOMAIN LowerOf THEN LowerOf[c] ELSE c

\* String.prototype.toLowerCase
ToLowerCase(s) == [i \in 1..Len(s) |-> ToLowerChar(s[i])]

\* Array.prototype.includes
Includes(arr, x) == \E i \in 1..Len(arr) : arr[i] = x

\* Array.prototype.map
Map(arr, F(_)) == [i \in 1..Len(arr) |-> F(arr[i])]

\* Array.prototype.filter
Filter(arr, Test(_)) == SelectSeq(arr, Test)

\* all sequences over S of length at most n
SeqUpTo(S, n) == UNION {[1..k -> S] : k \in 0..n}

iOS == <<"i","O","S">>
ios == <<"i","o","s">>
Web == <<"W","e","b">>
Windows == <<"W","i","n","d","o","w","s">>
Flutter == <<"F","l","u","t","t","e","r">>
flutter == <<"f","l","u","t","t","e","r">>
Dart == <<"D","a","r","t">>

PackagePlatformStrings == {ios, Web, Windows}
PackageSdkStrings == {Flutter, flutter}
TargetPlatformStrings == {iOS, Web}
TargetSdkStrings == {Flutter, Dart}

-----------------------------------------------------------------------------
(* Compatibility classifier *)

\* full as soon as one dimension has nothing missing
StatusOf_FullOnEither(missingPlatforms, missingSDKs, cfg) ==
    IF Len(missingPlatforms) = 0 \/ Len(missingSDKs) = 0
    THEN "full"
    ELSE IF \/ Len(missingPlatforms) < Len(cfg.targetPlatforms)
            \/ Len(missingSDKs) < Len(cfg.targetSDKs)
         THEN "partial"
         ELSE "none"

\* partial only when both dimensions matched something
StatusOf_PartialOnBoth(missingPlatforms, missingSDKs, cfg) ==
    IF Len(missingPlatforms) = 0 /\ Len(missingSDKs) = 0
    THEN "full"
    ELSE IF /\ Len(missingPlatforms) < Len(cfg.targetPlatforms)
            /\ Len(missingSDKs) < Len(cfg.targetSDKs)
         THEN "partial"
         ELSE "none"

\* the SDK dimension left out of the partial test
StatusOf_PlatformsOnly(missingPlatforms, missingSDKs, cfg) ==
    IF Len(missingPlatforms) = 0 /\ Len(missingSDKs) = 0
    THEN "full"
    ELSE IF Len(missingPlatforms) < Len(cfg.targetPlatforms)
         THEN "partial"
         ELSE "none"

StatusOf(missingPlatforms, missingSDKs, cfg) ==
    IF Len(missingPlatforms) = 0 /\ Len(missingSDKs) = 0
    THEN "full"
    ELSE IF \/ Len(missingPlatforms) < Len(cfg.targetPlatforms)
            \/ Len(missingSDKs) < Len(cfg.targetSDKs)
         THEN "partial"
         ELSE "none"

\* the target compared without case folding
MissingPlatforms_NoFold(platforms, cfg) ==
    LET normalizedPlatforms == Map(platforms, ToLowerCase)
    IN  Filter(cfg.targetPlatforms,
               LAMBDA p : ~Includes(normalizedPlatforms, p))

MissingPlatforms(platforms, cfg) ==
    LET normalizedPlatforms == Map(platforms, ToLowerCase)
    IN  Filter(cfg.targetPlatforms,
               LAMBDA p : ~Includes(normalizedPlatforms, ToLowerCase(p)))

\* SDKs compared case-insensitively, like platforms
MissingSDKs_Fold(sdks, cfg) ==
    Filter(cfg.targetSDKs,
           LAMBDA s : ~Includes(Map(sdks, ToLowerCase), ToLowerCase(s)))

MissingSDKs(sdks, cfg) ==
    Filter(cfg.targetSDKs, LAMBDA s : ~Includes(sdks, s))

checkCompatibility(platforms, sdks, cfg) ==
    LET missingPlatforms == MissingPlatforms(platforms, cfg)
        missingSDKs == MissingSDKs(sdks, cfg)
    IN  [compatibilityStatus |-> StatusOf(missingPlatforms, missingSDKs, cfg),
         missingPlatforms |-> missingPlatforms,
         missingSDKs |-> missingSDKs]

CompatibilityConfigs ==
    [targetPlatforms : SeqUpTo(TargetPlatformStrings, MaxTargets),
     targetSDKs : SeqUpTo(TargetSdkStrings, MaxTargets)]

CcIdle == [called |-> FALSE, platforms |-> <<>>, sdks |-> <<>>,
           config |-> [targetPlatforms |-> <<>>, targetSDKs |-> <<>>],
           result |-> NULL]

\* a caller evaluates checkCompatibility(platforms, sdks, config)
CallCheckCompatibility ==
    /\ ~cc.called
    /\ cc' = [cc EXCEPT !.called = TRUE,
                        !.result = checkCompatibility(cc.platforms, cc.sdks, cc.config)]
    /\ UNCHANGED <<page, pp, runVars>>

-----------------------------------------------------------------------------
(* Capability extractor *)

Whitespace == {" ", "\t", "\n"}

RECURSIVE TrimStart(_)
TrimStart(s) ==
    IF s # <<>> /\ Head(s) \in Whitespace THEN TrimStart(Tail(s)) ELSE s

RECURSIVE TrimEnd(_)
TrimEnd(s) ==
    IF s # <<>> /\ s[Len(s)] \in Whitespace
    THEN TrimEnd(SubSeq(s, 1, Len(s) - 1))
    ELSE s

\* String.prototype.trim
Trim(s) == TrimEnd(TrimStart(s))

\* cheerio's text() of a set of elements: their texts, concatenated
RECURSIVE Text(_)
Text(elements) ==
    IF elements = <<>> THEN <<>> ELSE Head(elements) \o Text(Tail(elements))

PlatformLabel == <<"P","l","a","t","f","o","r","m">>
SdkLabel == <<"S","D","K">>

\* the sub-tag texts collected without the test for an empty string
BadgeSubs_KeepEmpty(badge) == Map(badge.subs, Trim)

\* the trimmed non-empty texts of the .tag-badge-sub elements of one badge
BadgeSubs(badge) ==
    Filter(Map(badge.subs, Trim), LAMBDA t : t # <<>>)

\* the each() loop over '.detail-tags .-pub-tag-badge' shared by both extractors
RECURSIVE CollectSubs(_, _)
CollectSubs(badges, label) ==
    IF badges = <<>> THEN <<>>
    ELSE (IF Trim(Text(Head(badges).mains)) = label
          THEN BadgeSubs(Head(badges))
          ELSE <<>>) \o CollectSubs(Tail(badges), label)

extractPlatformsFromHtml(html) == CollectSubs(html, PlatformLabel)

extractSDKsFromHtml(html) == CollectSubs(html, SdkLabel)

License == <<"L","i","c","e","n","s","e">>

\* texts of the .tag-badge-main element of a badge
BadgeLabels ==
    {<<" ">> \o PlatformLabel \o <<"\n">>, ToLowerCase(PlatformLabel), SdkLabel, License}

\* texts of a .tag-badge-sub element
SubTexts == {<<" ">> \o ios \o <<"\n">>, Web, <<" ">>}

\* the pages handed to the extractors: sequences of tag badges
Markups ==
    SeqUpTo([mains : {<<l>> : l \in BadgeLabels}, subs : SeqUpTo(SubTexts, MaxSubs)],
            MaxBadges)

PageIdle == [called |-> FALSE, html |-> <<>>, platforms |-> <<>>, sdks |-> <<>>]

\* a caller runs both extractors on the same page
CallExtract ==
    /\ ~page.called
    /\ page' = [page EXCEPT !.called = TRUE,
                            !.platforms = extractPlatformsFromHtml(page.html),
                            !.sdks = extractSDKsFromHtml(page.html)]
    /\ UNCHANGED <<cc, pp, runVars>>

-----------------------------------------------------------------------------
(* Manifest reader *)

\* a string: the name of a file, or the text of a YAML document (its lines)
PathString(name) == [kind |-> "path", path |-> name, lines |-> <<>>]
YamlString(lines) == [kind |-> "yaml", path |-> "", lines |-> lines]

\* the YAML documents: an optional line for each top-level key, in this order
YamlTexts ==
    {n \o v \o d \o dd :
        n \in {<<>>, <<[key |-> "name", value |-> <<"test_app">>]>>},
        v \in {<<>>, <<[key |-> "version", value |-> <<"1.0.0">>]>>},
        d \in {<<>>, <<[key |-> "dependencies", value |-> <<"flutter", "http">>]>>,
                      <<[key |-> "dependencies", value |-> <<"http">>]>>},
        dd \in {<<>>, <<[key |-> "dev_dependencies", value |-> <<"flutter_test", "path">>]>>,
                       <<[key |-> "dev_dependencies", value |-> <<"path">>]>>}}

\* the value of a top-level key of a YAML text, <<>> when the text has no such line
YamlValue(lines, key) ==
    IF \E i \in 1..Len(lines) : lines[i].key = key
    THEN lines[CHOOSE i \in 1..Len(lines) : lines[i].key = key].value
    ELSE <<>>

YamlSection(lines, key) ==
    [present |-> \E i \in 1..Len(lines) : lines[i].key = key,
     keys |-> YamlValue(lines, key)]

\* yaml.load of a well-formed text: undefined for an empty document
YamlLoad(lines) ==
    IF lines = <<>>
    THEN [kind |-> "empty"]
    ELSE [kind |-> "mapping",
          name |-> YamlValue(lines, "name"),
          version |-> YamlValue(lines, "version"),
          dependencies |-> YamlSection(lines, "dependencies"),
          dev_dependencies |-> YamlSection(lines, "dev_dependencies")]

\* parsePubspec(filePath): reads the file of that name and parses its content;
\* fs.readFileSync throws when there is no such file
parsePubspec(filePath, files) ==
    IF filePath.kind = "path" /\ filePath.path \in DOMAIN files
    THEN [threw |-> FALSE, data |-> YamlLoad(files[filePath.path])]
    ELSE [threw |-> TRUE, data |-> [kind |-> "empty"]]

PubspecPath == "/workspace/pubspec.yaml"

PpIdle == [called |-> FALSE, arg |-> PathString(PubspecPath),
           files |-> [f \in {} |-> <<>>],
           result |-> [threw |-> FALSE, data |-> [kind |-> "empty"]]]

\* a caller evaluates parsePubspec(arg)
CallParsePubspec ==
    /\ ~pp.called
    /\ pp' = [pp EXCEPT !.called = TRUE, !.result = parsePubspec(pp.arg, pp.files)]
    /\ UNCHANGED <<cc, page, runVars>>

ManifestKeys == {"flutter", "flutter_test", "http", "path"}

\* a section of the manifest: absent, or a mapping with its keys in iteration order
Sections ==
    {[present |-> FALSE, keys |-> <<>>]} \cup
    {[present |-> TRUE, keys |-> ks] :
        ks \in {k \in SeqUpTo(ManifestKeys, MaxKeys) :
                  \A i, j \in 1..Len(k) : i # j => k[i] # k[j]}}

\* what yaml.load makes of the file: it throws, or returns undefined (an empty
\* document), a scalar, or a mapping
Documents ==
    {[kind |-> "malformed"], [kind |-> "empty"], [kind |-> "scalar"]} \cup
    [kind : {"mapping"}, dependencies : Sections, dev_dependencies : Sections]

\* only the SDK's own name skipped, its test placeholder kept
SectionNames_OnlyFlutter(doc, section) ==
    IF doc.kind = "mapping" /\ doc[section].present
    THEN Filter(doc[section].keys, LAMBDA dep : dep # "flutter")
    ELSE <<>>

\* the keys pushed by one of the two forEach loops
SectionNames(doc, section) ==
    IF doc.kind = "mapping" /\ doc[section].present
    THEN Filter(doc[section].keys, LAMBDA dep : dep # "flutter" /\ dep # "flutter_test")
    ELSE <<>>

extractDependencies(doc) ==
    IF doc.kind = "empty"
    THEN [threw |-> TRUE, dependencies |-> <<>>, devDependencies |-> <<>>]
    ELSE [threw |-> FALSE,
          dependencies |-> SectionNames(doc, "dependencies"),
          devDependencies |-> SectionNames(doc, "dev_dependencies")]

-----------------------------------------------------------------------------
(* Remote catalog and capability fetcher *)

Android == <<"A","n","d","r","o","i","d">>

\* the response pub.dev gives for a package name: its status and the tag
\* badges of its body; the response for path is a non-success response
Catalog(packageName) ==
    CASE packageName = "http" ->
            [statusCode |-> 200,
             body |-> <<[mains |-> <<PlatformLabel>>,
                         subs |-> <<<<" ">> \o ios \o <<"\n">>, Web, Windows>>],
                        [mains |-> <<SdkLabel>>, subs |-> <<Dart, Flutter>>]>>]
      [] packageName = "path" ->
            [statusCode |-> 404,
             body |-> <<[mains |-> <<SdkLabel>>, subs |-> <<Dart, <<" ">>, Flutter>>],
                        [mains |-> <<<<"L","i","c","e","n","s","e">>>>, subs |-> <<Web>>]>>]
      [] OTHER ->
            [statusCode |-> 404, body |-> <<>>]

\* the value the promise of fetchPackagePlatformInfo resolves with at 'end'
PlatformInfo(packageName, data, cfg) ==
    LET platforms == extractPlatformsFromHtml(data)
        sdks == extractSDKsFromHtml(data)
        compatibilityInfo == checkCompatibility(platforms, sdks, cfg)
    IN  [name |-> packageName,
         platforms |-> platforms,
         sdks |-> sdks,
         compatibilityStatus |-> compatibilityInfo.compatibilityStatus,
         missingPlatforms |-> compatibilityInfo.missingPlatforms,
         missingSDKs |-> compatibilityInfo.missingSDKs]

\* the fallback built without the target lists
FallbackInfo_NothingMissing(packageName, cfg) ==
    [name |-> packageName,
     platforms |-> <<>>,
     sdks |-> <<>>,
     compatibilityStatus |-> "none",
     missingPlatforms |-> <<>>,
     missingSDKs |-> <<>>]

\* the record built in the catch block of the per-package task
FallbackInfo(packageName, cfg) ==
    [name |-> packageName,
     platforms |-> <<>>,
     sdks |-> <<>>,
     compatibilityStatus |-> "none",
     missingPlatforms |-> cfg.targetPlatforms,
     missingSDKs |-> cfg.targetSDKs]

-----------------------------------------------------------------------------
(* Report view *)

\* statusOrder of the comparator
statusOrder == [full |-> 0, partial |-> 1, none |-> 2]

\* a sort that puts the later of two records of equal status first
sortByCompatibility_Unstable(infos) ==
    LET before(j, i) ==
            \/ statusOrder[infos[j].compatibilityStatus]
                 < statusOrder[infos[i].compatibilityStatus]
            \/ /\ infos[j].compatibilityStatus = infos[i].compatibilityStatus
               /\ j > i
        rank(i) == Cardinality({j \in 1..Len(infos) : before(j, i)}) + 1
    IN  [k \in 1..Len(infos) |-> infos[CHOOSE i \in 1..Len(infos) : rank(i) = k]]

\* [...infos].sort(comparator): a stable sort by statusOrder
sortByCompatibility(infos) ==
    LET before(j, i) ==
            \/ statusOrder[infos[j].compatibilityStatus]
                 < statusOrder[infos[i].compatibilityStatus]
            \/ /\ infos[j].compatibilityStatus = infos[i].compatibilityStatus
               /\ j < i
        rank(i) == Cardinality({j \in 1..Len(infos) : before(j, i)}) + 1
    IN  [k \in 1..Len(infos) |-> infos[CHOOSE i \in 1..Len(infos) : rank(i) = k]]

\* the class of a status, a string 'status-' followed by the status
getStatusClass(status) ==
    IF status \in {"full", "partial", "none"} THEN <<"status-", status>> ELSE <<>>

\* one rendered table of packages, nothing for an empty list
renderTableSection(packages, status, sectionClass) ==
    IF Len(packages) = 0
    THEN <<>>
    ELSE <<[sectionClass |-> sectionClass,
            titleClass |-> getStatusClass(status),
            count |-> Len(packages),
            rows |-> packages,
            hidden |-> FALSE]>>

WithStatus(packages, status) ==
    Filter(packages, LAMBDA p : p.compatibilityStatus = status)

\* the data-filter values of the filter buttons
Filters == {"all", "full", "partial", "none"}

\* the page: the settings echoed, the summary cards, the filter buttons and
\* the six tables
generateWebviewHTML(dependencies, devDependencies, cfg) ==
    LET allPackages == dependencies \o devDependencies
        fullCompatible == WithStatus(allPackages, "full")
        partialCompatible == WithStatus(allPackages, "partial")
        incompatible == WithStatus(allPackages, "none")
    IN  [config |-> cfg,
         summary |-> [full |-> Len(fullCompatible),
                      partial |-> Len(partialCompatible),
                      none |-> Len(incompatible)],
         buttons |-> [all |-> [active |-> TRUE, count |-> Len(allPackages)],
                      full |-> [active |-> FALSE, count |-> Len(fullCompatible)],
                      partial |-> [active |-> FALSE, count |-> Len(partialCompatible)],
                      none |-> [active |-> FALSE, count |-> Len(incompatible)]],
         sections |->
            renderTableSection(WithStatus(dependencies, "full"), "full",
                               "dependency-section")
            \o renderTableSection(WithStatus(dependencies, "partial"), "partial",
                                  "dependency-section")
            \o renderTableSection(WithStatus(dependencies, "none"), "none",
                                  "dependency-section")
            \o renderTableSection(WithStatus(devDependencies, "full"), "full",
                                  "dev-dependency-section")
            \o renderTableSection(WithStatus(devDependencies, "partial"), "partial",
                                  "dev-dependency-section")
            \o renderTableSection(WithStatus(devDependencies, "none"), "none",
                                  "dev-dependency-section")]

\* the panel after displayResultsInWebview: its arguments, the page and the
\* summary notification
displayResultsInWebview(analysisResult, cfg) ==
    LET sortedDependencies == sortByCompatibility(analysisResult.dependencies)
        sortedDevDependencies == sortByCompatibility(analysisResult.devDependencies)
        allPackages == analysisResult.dependencies \o analysisResult.devDependencies
        fullCompatible == Len(WithStatus(allPackages, "full"))
        partialCompatible == Len(WithStatus(allPackages, "partial"))
        totalPackages == Len(allPackages)
    IN  [displayed |-> TRUE,
         analysisResult |-> analysisResult,
         config |-> cfg,
         html |-> generateWebviewHTML(sortedDependencies, sortedDevDependencies, cfg),
         notification |-> [fullCompatible |-> fullCompatible,
                           partialCompatible |-> partialCompatible,
                           incompatible |-> totalPackages - fullCompatible
                                              - partialCompatible]]

\* the click handler that leaves the other buttons as they are
OnFilterClick_KeepActive(html, filter) ==
    [html EXCEPT
        !.buttons = [b \in Filters |-> [@[b] EXCEPT !.active = @ \/ b = filter]],
        !.sections =
            [k \in 1..Len(html.sections) |->
                IF filter = "all"
                THEN [html.sections[k] EXCEPT !.hidden = FALSE]
                ELSE [html.sections[k] EXCEPT
                        !.hidden = ~(html.sections[k].titleClass = <<"status-", filter>>)]]]

\* the click handler of a filter button
OnFilterClick(html, filter) ==
    [html EXCEPT
        !.buttons = [b \in Filters |-> [@[b] EXCEPT !.active = (b = filter)]],
        !.sections =
            [k \in 1..Len(html.sections) |->
                IF filter = "all"
                THEN [html.sections[k] EXCEPT !.hidden = FALSE]
                ELSE [html.sections[k] EXCEPT
                        !.hidden = ~(html.sections[k].titleClass = <<"status-", filter>>)]]]

\* no panel yet
ViewIdle ==
    [displayed |-> FALSE,
     analysisResult |-> [dependencies |-> <<>>, devDependencies |-> <<>>],
     config |-> [targetPlatforms |-> <<>>, targetSDKs |-> <<>>],
     html |-> generateWebviewHTML(<<>>, <<>>,
                                  [targetPlatforms |-> <<>>, targetSDKs |-> <<>>]),
     notification |-> [fullCompatible |-> 0, partialCompatible |-> 0, incompatible |-> 0]]

\* the records of a displayed analysis, as far as the view reads them
ViewRecords == [name : {"http", "path"}, compatibilityStatus : {"full", "partial", "none"}]

Analyses ==
    [dependencies : SeqUpTo(ViewRecords, MaxRecords),
     devDependencies : SeqUpTo(ViewRecords, MaxRecords)]

ViewConfig == [targetPlatforms |-> <<iOS, Web>>, targetSDKs |-> <<Flutter>>]

-----------------------------------------------------------------------------
(* Command handler *)

Workspaces ==
    {[kind |-> "noFolder"], [kind |-> "noFile"]} \cup
    [kind : {"file"}, doc : Documents]

\* the settings the handler may read
RunConfigs ==
    {[targetPlatforms |-> <<iOS, Web>>, targetSDKs |-> <<Flutter>>],
     [targetPlatforms |-> <<>>, targetSDKs |-> <<Flutter, Dart>>],
     [targetPlatforms |-> <<Android>>, targetSDKs |-> <<>>],
     [targetPlatforms |-> <<>>, targetSDKs |-> <<>>]}

\* the per-package callback without its catch: the rejection propagates
OnFetchRejected_Propagates(packageName, cfg) ==
    [state |-> "rejected", value |-> <<>>]

\* what the per-package async callback settles with when the fetch rejects
OnFetchRejected(packageName, cfg) ==
    [state |-> "fulfilled",
     value |-> <<[packageName |-> packageName,
                  info |-> FallbackInfo(packageName, cfg),
                  success |-> FALSE]>>]

\* what the per-package async callback settles with when the fetch resolves
OnFetchResolved(packageName, info) ==
    [state |-> "fulfilled",
     value |-> <<[packageName |-> packageName, info |-> info, success |-> TRUE]>>]

\* one task per distinct name: a name listed twice is fetched once
Launch_Dedup(names) ==
    LET keep(i) == \A j \in 1..(i - 1) : names[j] # names[i]
        pos(k) == CHOOSE i \in 1..Len(names) :
                      keep(i) /\ Cardinality({j \in 1..i : keep(j)}) = k
    IN  [k \in 1..Cardinality({i \in 1..Len(names) : keep(i)}) |->
            [packageName |-> names[pos(k)], state |-> "pending", value |-> <<>>,
             requests |-> 1, event |-> "none"]]

\* allPackageNames.map(async ...): one task, and one request, per name
Launch(names) ==
    [i \in 1..Len(names) |->
        [packageName |-> names[i], state |-> "pending", value |-> <<>>,
         requests |-> 1, event |-> "none"]]

\* two independent tests: a result whose name is in both lists goes to both buckets
Partition_BothBuckets(results, deps, devDeps) ==
    [dependencies |->
        Map(Filter(results, LAMBDA r : Includes(deps, r.packageName)),
            LAMBDA r : r.info),
     devDependencies |->
        Map(Filter(results, LAMBDA r : Includes(devDeps, r.packageName)),
            LAMBDA r : r.info)]

\* the forEach that separates the results back into the two buckets
Partition(results, deps, devDeps) ==
    [dependencies |->
        Map(Filter(results, LAMBDA r : Includes(deps, r.packageName)),
            LAMBDA r : r.info),
     devDependencies |->
        Map(Filter(results, LAMBDA r : ~Includes(deps, r.packageName)
                                        /\ Includes(devDeps, r.packageName)),
            LAMBDA r : r.info)]

\* the history of settlements after task i settled
Settled(o, i) ==
    IF o.observed THEN [o EXCEPT !.arrived = Append(@, i)] ELSE o

\* the results in the order in which the tasks settled
Results_CompletionOrder(ts, arrived) ==
    [k \in 1..Len(arrived) |-> ts[arrived[k]].value[1]]

\* what await Promise.all(packagePromises) returns: the values of the tasks in
\* the order of packagePromises, whatever the order in which they settled
Results(ts, arrived) ==
    [i \in 1..Len(ts) |-> ts[i].value[1]]

\* the command runs without a workspace folder
AnalyzeNoWorkspace ==
    /\ pc = "idle"
    /\ workspace.kind = "noFolder"
    /\ errorMessage' = errorMessage + 1
    /\ pc' = "aborted"
    /\ UNCHANGED <<pureVars, view, order, workspace, pubspecData, config, depNames, devDepNames,
                   tasks, report, shown>>

\* the missing pubspec.yaml is not reported
AnalyzeNoPubspec_Silent ==
    /\ pc = "idle"
    /\ workspace.kind = "noFile"
    /\ pc' = "aborted"
    /\ UNCHANGED <<pureVars, view, order, workspace, pubspecData, config, depNames, devDepNames,
                   tasks, report, shown, errorMessage>>

\* the command runs in a workspace without pubspec.yaml
AnalyzeNoPubspec ==
    /\ pc = "idle"
    /\ workspace.kind = "noFile"
    /\ errorMessage' = errorMessage + 1
    /\ pc' = "aborted"
    /\ UNCHANGED <<pureVars, view, order, workspace, pubspecData, config, depNames, devDepNames,
                   tasks, report, shown>>

\* parsePubspec or extractDependencies throws: the outer catch reports it
AnalyzeThrows ==
    /\ pc = "idle"
    /\ workspace.kind = "file"
    /\ \/ workspace.doc.kind = "malformed"
       \/ extractDependencies(workspace.doc).threw
    /\ errorMessage' = errorMessage + 1
    /\ pc' = "failed"
    /\ UNCHANGED <<pureVars, view, order, workspace, pubspecData, config, depNames, devDepNames,
                   tasks, report, shown>>

\* the handler up to its await of Promise.all: parse, extract, launch every fetch
AnalyzeLaunch ==
    /\ pc = "idle"
    /\ workspace.kind = "file"
    /\ workspace.doc.kind # "malformed"
    /\ ~extractDependencies(workspace.doc).threw
    /\ LET extracted == extractDependencies(workspace.doc)
       IN  /\ pubspecData' = workspace.doc
           /\ depNames' = extracted.dependencies
           /\ devDepNames' = extracted.devDependencies
           /\ tasks' = Launch(extracted.dependencies \o extracted.devDependencies)
    /\ pc' = "awaiting"
    /\ UNCHANGED <<pureVars, view, order, workspace, config, report, shown, errorMessage>>

\* the response of request i ends: 'end' handler, resolve, the task returns
ResponseEnd(i) ==
    /\ pc = "awaiting"
    /\ tasks[i].event = "none"
    /\ LET packageName == tasks[i].packageName
           data == Catalog(packageName).body
           settled == OnFetchResolved(packageName, PlatformInfo(packageName, data, config))
       IN  tasks' = [tasks EXCEPT ![i].event = "end",
                                  ![i].state = settled.state,
                                  ![i].value = settled.value]
    /\ order' = Settled(order, i)
    /\ UNCHANGED <<pureVars, view, pc, workspace, pubspecData, config, depNames, devDepNames,
                   report, shown, errorMessage>>

\* request i emits 'error': reject, and the task's catch block
RequestError(i) ==
    /\ pc = "awaiting"
    /\ tasks[i].event = "none"
    /\ LET settled == OnFetchRejected(tasks[i].packageName, config)
       IN  tasks' = [tasks EXCEPT ![i].event = "error",
                                  ![i].state = settled.state,
                                  ![i].value = settled.value]
    /\ order' = Settled(order, i)
    /\ UNCHANGED <<pureVars, view, pc, workspace, pubspecData, config, depNames, devDepNames,
                   report, shown, errorMessage>>

\* the connection of request i is lost while the body is received: the
\* response emits neither 'end' nor a request 'error', no handler runs
ResponseAborted(i) ==
    /\ pc = "awaiting"
    /\ tasks[i].event = "none"
    /\ tasks' = [tasks EXCEPT ![i].event = "aborted"]
    /\ UNCHANGED <<pureVars, view, order, pc, workspace, pubspecData, config, depNames, devDepNames,
                   report, shown, errorMessage>>

\* a handler that does not wait for the pending tasks and reports the settled ones
Join_Eager ==
    /\ pc = "awaiting"
    /\ IF \E i \in 1..Len(tasks) : tasks[i].state = "rejected"
       THEN /\ errorMessage' = errorMessage + 1
            /\ pc' = "failed"
            /\ UNCHANGED <<report, shown, view>>
       ELSE /\ report' = Partition(Map(Filter(tasks, LAMBDA t : t.state = "fulfilled"),
                                       LAMBDA t : t.value[1]),
                                   depNames, devDepNames)
            /\ view' = displayResultsInWebview(report', config)
            /\ shown' = shown + 1
            /\ pc' = "done"
            /\ UNCHANGED errorMessage
    /\ UNCHANGED <<pureVars, order, workspace, pubspecData, config, depNames,
                   devDepNames, tasks>>

\* Promise.all settles: the rest of the handler, or its outer catch
Join ==
    /\ pc = "awaiting"
    /\ IF \E i \in 1..Len(tasks) : tasks[i].state = "rejected"
       THEN /\ errorMessage' = errorMessage + 1
            /\ pc' = "failed"
            /\ UNCHANGED <<report, shown, view>>
       ELSE /\ \A i \in 1..Len(tasks) : tasks[i].state = "fulfilled"
            /\ report' = Partition(Results(tasks, order.arrived), depNames, devDepNames)
            /\ view' = displayResultsInWebview(report', config)
            /\ shown' = shown + 1
            /\ pc' = "done"
            /\ UNCHANGED errorMessage
    /\ UNCHANGED <<pureVars, order, workspace, pubspecData, config, depNames,
                   devDepNames, tasks>>

Init ==
    /\ cc = CcIdle
    /\ page = PageIdle
    /\ pp = PpIdle
    /\ pc = "idle"
    /\ workspace \in Workspaces
    /\ pubspecData = Undefined
    /\ config \in RunConfigs
    /\ depNames = <<>>
    /\ devDepNames = <<>>
    /\ tasks = <<>>
    /\ report = Undefined
    /\ shown = 0
    /\ errorMessage = 0
    /\ order = [observed |-> FALSE, arrived |-> <<>>]
    /\ view = ViewIdle

Next ==
    \/ AnalyzeNoWorkspace
    \/ AnalyzeNoPubspec
    \/ AnalyzeThrows
    \/ AnalyzeLaunch
    \/ \E i \in 1..Len(tasks) : ResponseEnd(i)
    \/ \E i \in 1..Len(tasks) : RequestError(i)
    \/ \E i \in 1..Len(tasks) : ResponseAborted(i)
    \/ Join

Spec == Init /\ [][Next]_vars

\* the manifests whose sections name only packages that are fetched
FetchedKeys == ManifestKeys \ {"flutter", "flutter_test"}

OrderWorkspaces ==
    {w \in Workspaces :
        (w.kind = "file" /\ w.doc.kind = "mapping") =>
            \A sec \in {w.doc.dependencies, w.doc.dev_dependencies} :
                \A k \in 1..Len(sec.keys) : sec.keys[k] \in FetchedKeys}

\* a run of the handler whose order of settlements is observed
InitOrder ==
    /\ cc = CcIdle
    /\ page = PageIdle
    /\ pp = PpIdle
    /\ pc = "idle"
    /\ workspace \in OrderWorkspaces
    /\ pubspecData = Undefined
    /\ config \in RunConfigs
    /\ depNames = <<>>
    /\ devDepNames = <<>>
    /\ tasks = <<>>
    /\ report = Undefined
    /\ shown = 0
    /\ errorMessage = 0
    /\ order = [observed |-> TRUE, arrived |-> <<>>]
    /\ view = ViewIdle

SpecOrder == InitOrder /\ [][Next]_vars

\* a run of the handler over the same manifests, its order not observed
InitLive ==
    /\ Init
    /\ workspace \in OrderWorkspaces

\* the event loop runs a handler whenever one is ready to run
SpecLive == InitLive /\ [][Next]_vars /\ WF_vars(Next)

\* the handler before the command runs
HandlerIdle ==
    /\ pc = "idle"
    /\ workspace = [kind |-> "noFolder"]
    /\ pubspecData = Undefined
    /\ config = [targetPlatforms |-> <<>>, targetSDKs |-> <<>>]
    /\ depNames = <<>>
    /\ devDepNames = <<>>
    /\ tasks = <<>>
    /\ report = Undefined
    /\ shown = 0
    /\ errorMessage = 0
    /\ order = [observed |-> FALSE, arrived |-> <<>>]

RunIdle ==
    /\ HandlerIdle
    /\ view = ViewIdle

InitCC ==
    /\ cc \in [called : {FALSE},
               platforms : SeqUpTo(PackagePlatformStrings, MaxPlatforms),
               sdks : SeqUpTo(PackageSdkStrings, MaxSdks),
               config : CompatibilityConfigs,
               result : {NULL}]
    /\ page = PageIdle
    /\ pp = PpIdle
    /\ RunIdle

NextCC == CallCheckCompatibility

SpecCC == InitCC /\ [][NextCC]_vars

InitHtml ==
    /\ page \in [called : {FALSE}, html : Markups, platforms : {<<>>}, sdks : {<<>>}]
    /\ cc = CcIdle
    /\ pp = PpIdle
    /\ RunIdle

NextHtml == CallExtract

SpecHtml == InitHtml /\ [][NextHtml]_vars

InitPP ==
    /\ pp \in [called : {FALSE},
               arg : {PathString(PubspecPath), PathString("/workspace/other.yaml")}
                        \cup {YamlString(t) : t \in YamlTexts},
               files : [{PubspecPath} -> YamlTexts],
               result : {PpIdle.result}]
    /\ cc = CcIdle
    /\ page = PageIdle
    /\ RunIdle

NextPP == CallParsePubspec

SpecPP == InitPP /\ [][NextPP]_vars

\* one call of displayResultsInWebview
CallDisplay ==
    /\ ~view.displayed
    /\ view' = displayResultsInWebview(view.analysisResult, view.config)
    /\ UNCHANGED <<pureVars, pc, workspace, pubspecData, config, depNames, devDepNames,
                   tasks, report, shown, errorMessage, order>>

\* the user clicks the filter button whose data-filter is filter
Click(filter) ==
    /\ view.displayed
    /\ view' = [view EXCEPT !.html = OnFilterClick(view.html, filter)]
    /\ UNCHANGED <<pureVars, pc, workspace, pubspecData, config, depNames, devDepNames,
                   tasks, report, shown, errorMessage, order>>

InitView ==
    /\ view \in [displayed : {FALSE},
                 analysisResult : Analyses,
                 config : {ViewConfig},
                 html : {ViewIdle.html},
                 notification : {ViewIdle.notification}]
    /\ cc = CcIdle
    /\ page = PageIdle
    /\ pp = PpIdle
    /\ HandlerIdle

NextView ==
    \/ CallDisplay
    \/ \E filter \in Filters : Click(filter)

SpecView == InitView /\ [][NextView]_vars

-----------------------------------------------------------------------------
(* Properties of a run of the command, checked under Spec *)

TaskIdx == 1..Len(tasks)

InfoNames(infos) == [k \in 1..Len(infos) |-> infos[k].name]

\* C1: when the fetch of a dependency fails with a transport error the
\* per-dependency task does not fail: it yields the record with that name,
\* platforms = [], sdks = [], status none, missingPlatforms = targetPlatforms
\* and missingSDKs = targetSDKs of the config.
C1_FetchErrorYieldsFallback ==
    \A i \in TaskIdx :
        tasks[i].event = "error" =>
            /\ tasks[i].state = "fulfilled"
            /\ tasks[i].value[1].info =
                  [name |-> (depNames \o devDepNames)[i],
                   platforms |-> <<>>,
                   sdks |-> <<>>,
                   compatibilityStatus |-> "none",
                   missingPlatforms |-> config.targetPlatforms,
                   missingSDKs |-> config.targetSDKs]

C1_Witness ==
    \E i \in TaskIdx :
        /\ tasks[i].event = "error"
        /\ tasks[i].state = "fulfilled"
        /\ config.targetPlatforms # <<>>
        /\ config.targetSDKs # <<>>

\* C2: fetch failures are isolated: whatever subset of the fetches fails, the
\* failure is never propagated to the handler, every dependency whose fetch
\* did not fail has the record it has when no fetch fails (the one built from
\* its own page and the config), and the report contains all N records.
C2_FetchFailureIsolation ==
    /\ pc = "failed" => tasks = <<>>
    /\ \A i \in TaskIdx :
          tasks[i].event = "end" =>
             /\ tasks[i].state = "fulfilled"
             /\ tasks[i].value[1].info =
                   PlatformInfo(tasks[i].packageName,
                                Catalog(tasks[i].packageName).body, config)
    /\ (pc = "awaiting" /\ \A i \in TaskIdx : tasks[i].event \in {"end", "error"})
          => ENABLED Join
    /\ pc = "done" =>
          /\ Len(report.dependencies) + Len(report.devDependencies) = Len(tasks)
          /\ \A i \in TaskIdx :
                \/ Includes(report.dependencies, tasks[i].value[1].info)
                \/ Includes(report.devDependencies, tasks[i].value[1].info)

C2_Witness ==
    /\ pc = "done"
    /\ \E i, j \in TaskIdx :
          /\ tasks[i].event = "error"
          /\ tasks[j].event = "end"
          /\ tasks[j].value[1].info.compatibilityStatus = "partial"

\* C3: the names of the records in the report's dependencies bucket are the
\* runtime name list of extractDependencies, and those of the devDependencies
\* bucket the development name list (same names, order and multiplicity),
\* also when a name appears in both sections of the manifest.
C3_BucketsFollowManifest ==
    pc = "done" =>
        /\ InfoNames(report.dependencies) = depNames
        /\ InfoNames(report.devDependencies) = devDepNames

\* C6: every record of the report, fetched or fallback, has status full if
\* and only if its missingPlatforms and missingSDKs are both empty, for every
\* config.
C6_ReportRecordsFullIffNothingMissing ==
    pc = "done" =>
        \A r \in {report.dependencies[k] : k \in 1..Len(report.dependencies)}
                 \cup {report.devDependencies[k] : k \in 1..Len(report.devDependencies)} :
            r.compatibilityStatus = "full"
               <=> (r.missingPlatforms = <<>> /\ r.missingSDKs = <<>>)

-----------------------------------------------------------------------------
(* Properties of the compatibility classifier, checked under SpecCC *)

UpperOf ==
    [c \in {LowerCase[i] : i \in 1..Len(LowerCase)} |->
        UpperCase[CHOOSE i \in 1..Len(LowerCase) : LowerCase[i] = c]]

ToUpperChar(c) == IF c \in DOMAIN UpperOf THEN UpperOf[c] ELSE c

ToUpperCase(s) == [i \in 1..Len(s) |-> ToUpperChar(s[i])]

\* the lists obtained from arr by changing only the letter case of its strings
CaseVariants(arr) == {Map(arr, ToLowerCase), Map(arr, ToUpperCase)}

\* the subsequence of arr at the positions idx, in increasing order
Pick(arr, idx) ==
    [k \in 1..Cardinality(idx) |->
        arr[CHOOSE i \in idx : Cardinality({j \in idx : j < i}) = k - 1]]

\* positions of the target platforms that no package platform equals up to case
UnsupportedPlatformIdx(platforms, targets) ==
    {i \in 1..Len(targets) :
        \A j \in 1..Len(platforms) : ToLowerCase(targets[i]) # ToLowerCase(platforms[j])}

\* positions of the target SDKs that no package SDK equals exactly
UnsupportedSdkIdx(sdks, targets) ==
    {i \in 1..Len(targets) : \A j \in 1..Len(sdks) : targets[i] # sdks[j]}

NothingMissing(r) == r.missingPlatforms = <<>> /\ r.missingSDKs = <<>>

AllMissing(r, cfg) ==
    /\ Len(r.missingPlatforms) = Len(cfg.targetPlatforms)
    /\ Len(r.missingSDKs) = Len(cfg.targetSDKs)

\* C4: checkCompatibility returns 'full' if and only if the returned
\* missingPlatforms and missingSDKs are both empty.
C4_FullIffNothingMissing ==
    cc.called =>
        (cc.result.compatibilityStatus = "full" <=> NothingMissing(cc.result))

C4_Witness ==
    /\ cc.called
    /\ cc.result.compatibilityStatus = "full"
    /\ cc.config.targetPlatforms # <<>>
    /\ cc.config.targetSDKs # <<>>

\* C5 as stated: checkCompatibility returns 'none' if and only if
\* |missingPlatforms| = |targetPlatforms| and |missingSDKs| = |targetSDKs|
\* (target lists may be empty), and every result that is neither 'full' nor
\* 'none' by the two laws is 'partial'.
C5_NoneIffAllMissing ==
    cc.called =>
        /\ cc.result.compatibilityStatus = "none" <=> AllMissing(cc.result, cc.config)
        /\ (~NothingMissing(cc.result) /\ ~AllMissing(cc.result, cc.config))
              => cc.result.compatibilityStatus = "partial"

\* C5 amended: 'none' if and only if the two length equalities hold and at
\* least one missing list is non-empty ('full' takes precedence, so with both
\* target lists empty the status is 'full'); a result for which neither law
\* holds is 'partial', and 'partial' is returned for no other result.
C5_NoneIffAllMissingAndNotFull ==
    cc.called =>
        /\ cc.result.compatibilityStatus = "none"
              <=> (AllMissing(cc.result, cc.config) /\ ~NothingMissing(cc.result))
        /\ cc.result.compatibilityStatus = "partial"
              <=> (~NothingMissing(cc.result) /\ ~AllMissing(cc.result, cc.config))

C5_Witness ==
    /\ cc.called
    /\ cc.result.compatibilityStatus = "none"
    /\ cc.config.targetPlatforms # <<>>
    /\ cc.config.targetSDKs # <<>>

\* C7: when the package supports none of the target platforms (at least one
\* target platform, all of them missing), checkCompatibility returns 'none',
\* also when every target SDK is supported.
C7_NoneWhenNoPlatformSupported ==
    (/\ cc.called
     /\ cc.config.targetPlatforms # <<>>
     /\ Len(cc.result.missingPlatforms) = Len(cc.config.targetPlatforms))
        => cc.result.compatibilityStatus = "none"

\* C8: with targetPlatforms empty the status is decided by the SDK dimension
\* alone: 'full' when no target SDK is missing, 'none' when targetSDKs is
\* non-empty and every target SDK is missing, 'partial' when some but not all
\* are missing; with both target lists empty it is 'full'.
C8_EmptyTargetPlatforms ==
    (cc.called /\ cc.config.targetPlatforms = <<>>) =>
        LET n == Len(cc.config.targetSDKs)
            m == Cardinality(UnsupportedSdkIdx(cc.sdks, cc.config.targetSDKs))
        IN  /\ m = 0 => cc.result.compatibilityStatus = "full"
            /\ (n > 0 /\ m = n) => cc.result.compatibilityStatus = "none"
            /\ (0 < m /\ m < n) => cc.result.compatibilityStatus = "partial"
            /\ n = 0 => cc.result.compatibilityStatus = "full"

C8_Witness ==
    /\ cc.called
    /\ cc.config.targetPlatforms = <<>>
    /\ cc.platforms # <<>>
    /\ Len(cc.config.targetSDKs) = 2
    /\ Len(cc.result.missingSDKs) = 1
    /\ cc.result.compatibilityStatus = "partial"

\* C9: missingPlatforms is exactly the subsequence of config.targetPlatforms,
\* in target order and with the target's casing, of the targets whose lowercase
\* form equals the lowercase form of no package platform; changing only the
\* letter case of the package platforms, or of the targets, never changes
\* which targets are reported missing.
C9_MissingPlatformsCaseInsensitive ==
    cc.called =>
        LET targets == cc.config.targetPlatforms
            idx == UnsupportedPlatformIdx(cc.platforms, targets)
        IN  /\ cc.result.missingPlatforms = Pick(targets, idx)
            /\ \A pv \in CaseVariants(cc.platforms) :
                  MissingPlatforms(pv, cc.config) = Pick(targets, idx)
            /\ \A tv \in CaseVariants(targets) :
                  MissingPlatforms(cc.platforms, [cc.config EXCEPT !.targetPlatforms = tv])
                     = Pick(tv, idx)

C9_Witness ==
    /\ cc.called
    /\ cc.platforms = <<ios>>
    /\ cc.config.targetPlatforms = <<Web, iOS>>
    /\ cc.result.missingPlatforms = <<Web>>

\* C10: missingSDKs is exactly the subsequence of config.targetSDKs, in target
\* order, of the targets that no element of the package's sdks equals exactly
\* (case-sensitively); a package SDK differing from a target only in letter
\* case leaves that target reported as missing.
C10_MissingSDKsCaseSensitive ==
    cc.called =>
        LET targets == cc.config.targetSDKs
        IN  /\ cc.result.missingSDKs = Pick(targets, UnsupportedSdkIdx(cc.sdks, targets))
            /\ \A i \in 1..Len(targets) :
                  (~Includes(cc.sdks, targets[i])
                   /\ Includes(Map(cc.sdks, ToLowerCase), ToLowerCase(targets[i])))
                     => Includes(cc.result.missingSDKs, targets[i])

C10_Witness ==
    /\ cc.called
    /\ cc.sdks = <<flutter>>
    /\ cc.config.targetSDKs = <<Flutter>>
    /\ cc.result.missingSDKs = <<Flutter>>

-----------------------------------------------------------------------------
(* Further properties of a run of the command, checked under Spec *)

\* a success status of an HTTP response
IsSuccessStatus(statusCode) == statusCode \in 200..299

\* C11: a response that arrives and ends with a non-success status is treated
\* as a fetch failure: the dependency's record is the fallback record
\* (platforms = [], sdks = [], status none, missingPlatforms = targetPlatforms,
\* missingSDKs = targetSDKs), whatever the body contains, for every config.
C11_NonSuccessResponseYieldsFallback ==
    \A i \in TaskIdx :
        (/\ tasks[i].event = "end"
         /\ ~IsSuccessStatus(Catalog(tasks[i].packageName).statusCode))
            => /\ tasks[i].state = "fulfilled"
               /\ tasks[i].value[1].info =
                     [name |-> tasks[i].packageName,
                      platforms |-> <<>>,
                      sdks |-> <<>>,
                      compatibilityStatus |-> "none",
                      missingPlatforms |-> config.targetPlatforms,
                      missingSDKs |-> config.targetSDKs]

\* the keys of a section of the parsed manifest, none when it is absent
KeysOf(doc, section) ==
    IF doc.kind = "mapping" /\ doc[section].present THEN doc[section].keys ELSE <<>>

\* the positions of the keys that are not an SDK placeholder
RealKeyIdx(keys) ==
    {i \in 1..Len(keys) : keys[i] \notin {"flutter", "flutter_test"}}

Launched == pc \in {"awaiting", "done"}

\* C12: extractDependencies returns as dependencies exactly the keys of the
\* dependencies mapping, in iteration order, minus 'flutter' and
\* 'flutter_test', and as devDependencies exactly the keys of dev_dependencies
\* minus the same two; neither list contains a placeholder and no key moves
\* to the other section's list.
C12_ExtractedNamesAreRealKeys ==
    Launched =>
        LET depKeys == KeysOf(pubspecData, "dependencies")
            devKeys == KeysOf(pubspecData, "dev_dependencies")
        IN  /\ depNames = Pick(depKeys, RealKeyIdx(depKeys))
            /\ devDepNames = Pick(devKeys, RealKeyIdx(devKeys))
            /\ \A n \in {"flutter", "flutter_test"} :
                  ~Includes(depNames, n) /\ ~Includes(devDepNames, n)

C12_Witness ==
    /\ Launched
    /\ pubspecData.kind = "mapping"
    /\ pubspecData.dependencies.keys = <<"flutter_test", "http">>
    /\ pubspecData.dev_dependencies.keys = <<"path", "flutter">>
    /\ depNames = <<"http">>
    /\ devDepNames = <<"path">>

\* C13: for every value that parsing a manifest can yield (a mapping with
\* both sections, one or neither, or a document with no top-level mapping)
\* extractDependencies raises no error and returns an empty list for each
\* absent section.
C13_ExtractNeverThrows ==
    (workspace.kind = "file" /\ workspace.doc.kind # "malformed") =>
        /\ pc # "failed"
        /\ Launched =>
              /\ KeysOf(workspace.doc, "dependencies") = <<>> => depNames = <<>>
              /\ KeysOf(workspace.doc, "dev_dependencies") = <<>> => devDepNames = <<>>

FatalWorkspace ==
    \/ workspace.kind \in {"noFolder", "noFile"}
    \/ workspace.kind = "file" /\ workspace.doc.kind = "malformed"

\* C14: a fatal error aborts the run without any report: with no workspace
\* folder, no manifest file, or a manifest whose reading or parsing throws, no
\* fetch is launched, displayResultsInWebview is never called, and an error
\* message is shown.
C14_FatalErrorAbortsWithoutReport ==
    FatalWorkspace =>
        /\ tasks = <<>>
        /\ shown = 0
        /\ report = Undefined
        /\ pc \in {"idle", "aborted", "failed"}
        /\ pc # "idle" => errorMessage = 1

C14_Witness ==
    /\ workspace.kind = "file"
    /\ workspace.doc.kind = "malformed"
    /\ pc = "failed"
    /\ errorMessage = 1

-----------------------------------------------------------------------------
(* Properties of the extractors, checked under SpecHtml *)

\* the positions <<badge, sub-tag>> of the non-empty sub-tag texts of the
\* badges whose trimmed label is the given one
TaggedPositions(html, label) ==
    UNION {{<<g, k>> : k \in {j \in 1..Len(html[g].subs) : Trim(html[g].subs[j]) # <<>>}} :
              g \in {h \in 1..Len(html) : Trim(Text(html[h].mains)) = label}}

Before(a, b) == a[1] < b[1] \/ (a[1] = b[1] /\ a[2] < b[2])

\* the trimmed texts at those positions, in document order
TaggedTexts(html, label) ==
    LET pos == TaggedPositions(html, label)
    IN  [n \in 1..Cardinality(pos) |->
            LET at == CHOOSE a \in pos : Cardinality({b \in pos : Before(b, a)}) = n - 1
            IN  Trim(html[at[1]].subs[at[2]])]

\* C16: extractPlatformsFromHtml returns exactly the trimmed, non-empty
\* sub-tag texts of the tag groups whose trimmed label equals "Platform", in
\* document order with duplicates kept, and extractSDKsFromHtml the same for
\* "SDK"; texts of groups with another label are in neither result, and a
\* document without a matching group yields the empty list.
C16_ExtractorsCollectTaggedTexts ==
    page.called =>
        /\ page.platforms = TaggedTexts(page.html, PlatformLabel)
        /\ page.sdks = TaggedTexts(page.html, SdkLabel)
        /\ (\A g \in 1..Len(page.html) :
               Trim(Text(page.html[g].mains)) \notin {PlatformLabel, SdkLabel})
              => (page.platforms = <<>> /\ page.sdks = <<>>)

C16_Witness ==
    /\ page.called
    /\ Len(page.html) = 2
    /\ page.html[1].subs = <<Web>>
    /\ page.platforms = <<Web, ios>>
    /\ page.sdks = <<>>

-----------------------------------------------------------------------------
(* Properties of parsePubspec, checked under SpecPP *)

\* C17: parsePubspec, called with the YAML text of a manifest as its
\* argument, returns the record parsed from that text.
C17_ParsePubspecParsesItsArgument ==
    (pp.called /\ pp.arg.kind = "yaml") =>
        /\ ~pp.result.threw
        /\ pp.result.data = YamlLoad(pp.arg.lines)

-----------------------------------------------------------------------------
(* Claims about the concurrent fetches *)

\* the record a task settles with, from its own name, the settings and what
\* its own transport did
Outcome(packageName, event, cfg) ==
    IF event = "end"
    THEN PlatformInfo(packageName, Catalog(packageName).body, cfg)
    ELSE FallbackInfo(packageName, cfg)

\* the tasks are settled in some order other than that of packagePromises
OutOfOrder ==
    \E j, k \in 1..Len(order.arrived) : j < k /\ order.arrived[j] > order.arrived[k]

\* C18: the report does not depend on the order in which the fetches complete:
\* whatever the order of the settlements, every task holds what its own name,
\* the settings and its own transport event determine (no settlement touches
\* another task), and the report shown is the partition of these records in
\* the order of the name lists.
C18_ReportIndependentOfArrivalOrder ==
    pc \in {"awaiting", "done"} =>
        /\ \A i \in 1..Len(tasks) :
              /\ tasks[i].event \in {"none", "aborted"} =>
                    tasks[i].state = "pending" /\ tasks[i].value = <<>>
              /\ tasks[i].event \in {"end", "error"} =>
                    /\ tasks[i].state = "fulfilled"
                    /\ tasks[i].value[1].packageName = tasks[i].packageName
                    /\ tasks[i].value[1].info
                         = Outcome(tasks[i].packageName, tasks[i].event, config)
        /\ pc = "done" =>
              report = Partition([i \in 1..Len(tasks) |->
                                     [packageName |-> tasks[i].packageName,
                                      info |-> Outcome(tasks[i].packageName,
                                                       tasks[i].event, config)]],
                                 depNames, devDepNames)

\* a report was shown after the fetches settled out of order, one with the
\* fetched record and one with the fallback, both in the same bucket
C18_Witness ==
    /\ pc = "done"
    /\ OutOfOrder
    /\ Len(report.dependencies) >= 2
    /\ tasks[1].packageName # tasks[2].packageName
    /\ \E i, j \in 1..Len(tasks) : tasks[i].event = "end" /\ tasks[j].event = "error"

\* C19: one fetch is issued for each entry of the concatenation of the two name
\* lists, in its order, all of them by the time the handler awaits, and no
\* entry is fetched a second time, also after its fetch failed.
C19_OneFetchPerEntryNoRetry ==
    /\ ~Launched => tasks = <<>>
    /\ Launched =>
          LET allPackageNames == depNames \o devDepNames
          IN  /\ Len(tasks) = Len(allPackageNames)
              /\ \A i \in 1..Len(tasks) :
                    /\ tasks[i].packageName = allPackageNames[i]
                    /\ tasks[i].requests = 1

\* a name listed in both sections has its two fetches, one of them failed and
\* was not issued again
C19_Witness ==
    /\ Launched
    /\ \E i, j \in 1..Len(tasks) :
          /\ i # j
          /\ tasks[i].packageName = tasks[j].packageName
          /\ tasks[i].event = "error"
          /\ tasks[i].requests = 1

\* C20: every invocation eventually settles whatever the transport does once
\* the request is made, so a run that parsed its manifest and launched its
\* fetches eventually shows the report.
C20_LaunchedRunEventuallyReports ==
    (pc = "awaiting") ~> (pc = "done")

-----------------------------------------------------------------------------
(* Claims about the report view *)

\* C21: in a run the report is handed to the view at most once, only after
\* every task of the run has settled, and with the settings value that
\* classified every record of the run.
C21_ReportShownOnceAfterAllSettled ==
    /\ shown <= 1
    /\ view.displayed <=> shown = 1
    /\ view.displayed =>
          /\ \A i \in 1..Len(tasks) : tasks[i].state = "fulfilled"
          /\ view.analysisResult = report
          /\ view.config = config
          /\ view.html.config = config
          /\ \A i \in 1..Len(tasks) :
                tasks[i].value[1].info
                  = Outcome(tasks[i].packageName, tasks[i].event, view.config)

\* a report was shown for a run of several fetches, fetched and fallen back,
\* under settings that name targets
C21_Witness ==
    /\ view.displayed
    /\ shown = 1
    /\ view.config.targetPlatforms # <<>>
    /\ \E i, j \in 1..Len(tasks) : tasks[i].event = "end" /\ tasks[j].event = "error"

\* how many elements of a sequence satisfy a test
Count(arr, Test(_)) == Cardinality({k \in 1..Len(arr) : Test(arr[k])})

\* C22: partitioning loses and invents nothing: the two buckets together hold
\* as many records as fetches were launched, and for every name as many
\* records of that name as fetches were launched for it.
C22_PartitionLosesAndInventsNothing ==
    pc = "done" =>
        /\ Len(report.dependencies) + Len(report.devDependencies)
             = Len(depNames) + Len(devDepNames)
        /\ Len(report.dependencies) + Len(report.devDependencies) = Len(tasks)
        /\ \A n \in ManifestKeys :
              Count(report.dependencies, LAMBDA r : r.name = n)
                + Count(report.devDependencies, LAMBDA r : r.name = n)
              = Count(tasks, LAMBDA t : t.packageName = n)

\* a report with records in both buckets, after a run whose manifest lists a
\* name in both sections
C22_Witness ==
    /\ pc = "done"
    /\ Len(report.dependencies) >= 2
    /\ Len(report.devDependencies) >= 1
    /\ \E n \in ManifestKeys : Includes(depNames, n) /\ Includes(devDepNames, n)

\* the rendered sections of a bucket's class and a status
SectionsOf(sectionClass, status) ==
    Filter(view.html.sections,
           LAMBDA sec : /\ sec.sectionClass = sectionClass
                        /\ sec.titleClass = <<"status-", status>>)

\* the buckets of the displayed analysis with the class of their sections
ViewBuckets ==
    {[sectionClass |-> "dependency-section",
      records |-> view.analysisResult.dependencies],
     [sectionClass |-> "dev-dependency-section",
      records |-> view.analysisResult.devDependencies]}

ViewStatuses == {"full", "partial", "none"}

\* C23: in the rendered report every record appears in exactly one of six
\* sections, that of its bucket and its status, in the order of its bucket;
\* the summary counts are the numbers of full, partial and none records over
\* both buckets and sum to the total, and the notification's incompatible
\* count is the number of 'none' records.
C23_SectionsAndCountsFollowAnalysis ==
    view.displayed =>
        LET allPackages == view.analysisResult.dependencies
                             \o view.analysisResult.devDependencies
            html == view.html
        IN  /\ \A k \in 1..Len(html.sections) :
                  /\ \E b \in ViewBuckets : html.sections[k].sectionClass = b.sectionClass
                  /\ \E st \in ViewStatuses :
                        html.sections[k].titleClass = <<"status-", st>>
            /\ \A b \in ViewBuckets : \A st \in ViewStatuses :
                  LET secs == SectionsOf(b.sectionClass, st)
                      expected == Filter(b.records, LAMBDA r : r.compatibilityStatus = st)
                  IN  IF expected = <<>>
                      THEN secs = <<>>
                      ELSE /\ Len(secs) = 1
                           /\ secs[1].rows = expected
                           /\ secs[1].count = Len(expected)
            /\ \A st \in ViewStatuses :
                  /\ html.summary[st]
                       = Count(allPackages, LAMBDA r : r.compatibilityStatus = st)
                  /\ html.buttons[st].count = html.summary[st]
            /\ html.summary.full + html.summary.partial + html.summary.none
                 = Len(allPackages)
            /\ html.buttons.all.count = Len(allPackages)
            /\ view.notification.fullCompatible = html.summary.full
            /\ view.notification.partialCompatible = html.summary.partial
            /\ view.notification.incompatible
                 = Count(allPackages, LAMBDA r : r.compatibilityStatus = "none")

\* a report whose first bucket holds two records of one status and different
\* names, and whose second bucket is not in the order of the statuses
C23_Witness ==
    /\ view.displayed
    /\ LET deps == view.analysisResult.dependencies
           devDeps == view.analysisResult.devDependencies
       IN  /\ Len(deps) = 2
           /\ deps[1].compatibilityStatus = deps[2].compatibilityStatus
           /\ deps[1].name # deps[2].name
           /\ Len(devDeps) = 2
           /\ devDeps[1].compatibilityStatus = "none"
           /\ devDeps[2].compatibilityStatus = "full"

\* the data-filter values of the buttons that carry the class 'active'
ActiveFilters == {b \in Filters : view.html.buttons[b].active}

\* C24: after any sequence of clicks exactly one filter button is active, the
\* one clicked last and initially 'all'; a section is hidden exactly when the
\* active filter is not 'all' and differs from the section's status, so a
\* click on 'all' shows every section again.
C24_OneActiveFilterHidesOtherStatuses ==
    /\ [](view.displayed =>
            /\ Cardinality(ActiveFilters) = 1
            /\ \A k \in 1..Len(view.html.sections) :
                  view.html.sections[k].hidden
                    <=> \E f \in ActiveFilters :
                           /\ f # "all"
                           /\ view.html.sections[k].titleClass # <<"status-", f>>)
    /\ [][/\ CallDisplay => ActiveFilters' = {"all"}
          /\ \A f \in Filters : Click(f) => ActiveFilters' = {f}]_vars

\* the 'partial' filter is active over a report with a partial section, shown,
\* and another section, hidden
C24_Witness ==
    /\ view.displayed
    /\ ActiveFilters = {"partial"}
    /\ \E j, k \in 1..Len(view.html.sections) :
          /\ view.html.sections[j].hidden
          /\ ~view.html.sections[k].hidden

====
